---- MODULE Spec2Model ----
(***************************************************************************)
(* A model of src/src/brokerages/wellsfargo_api.py: the run coordinator    *)
(* (wellsfargo_run), the login (wellsfargo_init_single), the holdings      *)
(* collection (wellsfargo_holdings_single) and the order execution         *)
(* (wellsfargo_transaction_single).                                        *)
(*                                                                         *)
(* The browser, the notifier and the page are the environment: every call  *)
(* on them is a step whose outcome (success, TimeoutException, another     *)
(* exception) is chosen nondeterministically, and the model follows the    *)
(* try/except/finally structure of the code from there.  Texts are         *)
(* sequences of one-character strings.                                     *)
(***************************************************************************)
EXTENDS Integers, Sequences, FiniteSets, TLC

(***************************************************************************)
(* Bounds of the model.                                                    *)
(***************************************************************************)
MaxCreds == 2
\* the longest WELLSFARGO credential list
MaxSymbols == 2
\* the longest symbol list of an order
MaxBlocks == 2
\* the most account blocks the landing page shows
MaxEntries == 2
\* the most account entries a live dropdown lists

(***************************************************************************)
(* Generic helpers on texts and sequences.                                 *)
(***************************************************************************)
RECURSIVE Remove(_, _)
\* str.replace(ch, ""): the text without the occurrences of ch
Remove(t, ch) ==
    IF t = <<>> THEN <<>>
    ELSE IF Head(t) = ch THEN Remove(Tail(t), ch)
    ELSE <<Head(t)>> \o Remove(Tail(t), ch)

\* str.replace(a, b) for single characters
Replace(t, a, b) == [i \in 1..Len(t) |-> IF t[i] = a THEN b ELSE t[i]]

\* JavaScript's text.includes(arg): arg occurs in text as a contiguous run
Includes(text, arg) ==
    \E i \in 0..(Len(text) - Len(arg)) :
        \A j \in 1..Len(arg) : text[i + j] = arg[j]

\* list.index(x) + 1: the 1-based position of the first element equal to x
IndexOf(list, x) == CHOOSE i \in 1..Len(list) :
    /\ list[i] = x
    /\ \A j \in 1..(i - 1) : list[j] # x

\* the sequences over S of length lo..hi
SeqsOf(S, lo, hi) == UNION {[1..n -> S] : n \in lo..hi}

\* the sequences without a repeated element
Distinct(s) == \A i, j \in 1..Len(s) : i # j => s[i] # s[j]

(***************************************************************************)
(* The inputs of a run.                                                    *)
(***************************************************************************)
\* the credential strings that can appear in WELLSFARGO (two entries of the
\* list may be textually identical)
Cred == {"alice:pw1:555", "bob:pw2:555"}

CredLists == SeqsOf(Cred, 1, MaxCreds)

\* the order's symbols: the first n of these
Tickers == <<"TSLA", "AAPL", "NVDA">>

\* order_obj.get_action() as configured; compared after .lower()
Actions == {"buy", "SELL", "hold"}

\* str.lower() on the configured actions
Lower(a) == IF a = "SELL" THEN "sell" ELSE a

\* the brokerage accounts a login can show.  nick is the text that precedes
\* the masked number in a dropdown entry, digits the visible trailing digits.
Accts == {"A", "B", "C"}

Nick(a) == IF a = "C" THEN <<"1", "2">> ELSE <<>>

Digits(a) ==
    IF a = "A" THEN <<"1", "2">>
    ELSE IF a = "B" THEN <<"3", "4">>
    ELSE <<"5", "6">>

\* the text of the block's masked-number element on the landing page
MaskedText(a) == <<".", ".">> \o Digits(a)

\* the innerText of the account's entry in a live dropdown
EntryText(a) == Nick(a) \o <<" ">> \o MaskedText(a)

(***************************************************************************)
(* The state.                                                              *)
(***************************************************************************)
VARIABLES
    accounts,       \* wellsfargo_run: os.environ["WELLSFARGO"].split(",")
    order,          \* order_obj: holdings flag, dry flag, action, stocks
    botLoop,        \* which of bot_obj and loop are not None
    fnArg,          \* function specifications: the argument, or NoCall
    fnRes,          \* function specifications: the result, or NoCall
    pos,            \* the position of the for loop of wellsfargo_run in accounts
    pc,             \* the statement the run is at
    index,          \* wellsfargo_run: index = accounts.index(account) + 1
    runDriver,      \* wellsfargo_run: driver is not None
    initDriver,     \* wellsfargo_init_single: driver is not None
    wfObj,          \* what wellsfargo_init_single returned: "unset", "obj", "None"
    session,        \* per list position, the browser session acquired for it
    loginAttempts,  \* the list positions wellsfargo_init_single was called for
    shot,           \* _wellsfargo_error took a screenshot in this iteration
    otpRequests,    \* one-time codes requested in this iteration
    registry,       \* wf_obj's account numbers under name, in insertion order
    blocks,         \* the accounts of the blocks discovery iterated, in order
    initRaised,     \* an exception left wellsfargo_init_single in this iteration
    loginTimedOut,  \* the except clause of line 142 ran in this iteration
    nAccounts,      \* holdings / transaction: the local "accounts" (entry count)
    acct,           \* holdings / transaction: the loop variable "account"
    sidx,           \* transaction: the position of the loop over get_stocks()
    orderFailed,    \* transaction: order_failed
    selected,       \* the account the last find_account script clicked, or "none"
    attempts,       \* per (account index, symbol position): iterations started
    outcome,        \* the outcome the current symbol attempt reported, or "none"
    submits,        \* clicks on the real submit control in this iteration
    resetDone,      \* the reset sequence ran in the current loop iteration
    price,          \* transaction: the local "price" (a float), or <<>>
    priceType,      \* transaction: price_type, or "none"
    holdings        \* wf_obj's holdings: records (account mask, symbol, qty, price)

\* the inputs of the run, which no step changes (fnArg and fnRes are used by
\* the specifications of the pure functions only)
inputVars == <<accounts, order, botLoop, fnArg, fnRes>>

runVars == <<pos, pc, index, runDriver, wfObj, session, loginAttempts>>

initVars == <<initDriver, shot, otpRequests, registry, blocks, initRaised,
              loginTimedOut>>

txnVars == <<nAccounts, acct, sidx, orderFailed, selected, attempts, outcome,
             submits, resetDone, price, priceType>>

holdVars == <<holdings>>

vars == <<inputVars, runVars, initVars, txnVars, holdVars>>

(***************************************************************************)
(* Outcomes of a call on the environment.  A Selenium wait raises          *)
(* TimeoutException when its predicate never holds; any call can raise     *)
(* another exception (NoSuchElementException, WebDriverException, ...).    *)
(* Both are subclasses of Exception.                                       *)
(***************************************************************************)
Raised == {"TimeoutException", "Exception"}

Outcomes == {"ok"} \cup Raised

\* the states of a browser session: not acquired, acquired and open, close()
\* was called on it, quit() was called on it
SessionStates == {"none", "open", "closed", "quit"}

\* the attempt counters of a fresh order execution
NoAttempts == [p \in (0..MaxEntries) \X (1..MaxSymbols) |-> 0]

Orders ==
    {[holdings |-> TRUE, dry |-> FALSE, action |-> "buy", stocks |-> <<>>]}
    \cup
    {[holdings |-> FALSE, dry |-> d, action |-> a, stocks |-> SubSeq(Tickers, 1, n)] :
        d \in BOOLEAN, a \in Actions, n \in 1..MaxSymbols}

\* the values the locals of wellsfargo_init_single have before it is called
FreshInit ==
    /\ initDriver = FALSE
    /\ shot = FALSE
    /\ otpRequests = 0
    /\ initRaised = FALSE

\* the values of a wf_obj nothing has been stored in
FreshRegistry ==
    /\ registry = <<>>
    /\ blocks = <<>>
    /\ loginTimedOut = FALSE

\* the values the locals of an operation have before it is called
FreshOperation ==
    /\ nAccounts = 0
    /\ acct = 0
    /\ sidx = 0
    /\ orderFailed = FALSE
    /\ selected = "none"
    /\ attempts = NoAttempts
    /\ outcome = "none"
    /\ submits = 0
    /\ resetDone = FALSE
    /\ price = <<>>
    /\ priceType = "none"
    /\ holdings = <<>>

\* wellsfargo_init_single returned or raised: its locals are gone
ResetInit ==
    /\ initDriver' = FALSE
    /\ shot' = FALSE
    /\ otpRequests' = 0
    /\ initRaised' = FALSE

\* the iteration is over: its wf_obj is gone
ResetRegistry ==
    /\ registry' = <<>>
    /\ blocks' = <<>>
    /\ loginTimedOut' = FALSE

\* an operation returned or raised: its locals are gone
ResetOperation ==
    /\ nAccounts' = 0
    /\ acct' = 0
    /\ sidx' = 0
    /\ orderFailed' = FALSE
    /\ selected' = "none"
    /\ attempts' = NoAttempts
    /\ outcome' = "none"
    /\ submits' = 0
    /\ resetDone' = FALSE
    /\ price' = <<>>
    /\ priceType' = "none"
    /\ holdings' = <<>>

\* the state wellsfargo_run starts in, for the inputs cl, os and bs
RunState(cl, os, bs) ==
    /\ accounts \in cl
    /\ order \in os
    /\ botLoop \in bs
    /\ pos = 1
    /\ pc = "run_for"
    /\ index = 0
    /\ runDriver = FALSE
    /\ wfObj = "unset"
    /\ session = [k \in 1..MaxCreds |-> "none"]
    /\ loginAttempts = <<>>
    /\ FreshInit
    /\ FreshRegistry
    /\ FreshOperation

\* no function is called on its own
NoCall == [fn |-> "none"]

InitWith(cl, os, bs) ==
    /\ RunState(cl, os, bs)
    /\ fnArg = NoCall
    /\ fnRes = NoCall

\* bot_obj and loop are two arguments of wellsfargo_run (line 31) that
\* default to None
BotLoops == [bot : BOOLEAN, loop : BOOLEAN]

\* neither was supplied: the run from the command line
NoBotLoop == [bot |-> FALSE, loop |-> FALSE]

\* both were supplied: the run from the chat bot
BothBotLoop == [bot |-> TRUE, loop |-> TRUE]

Init == InitWith(CredLists, Orders, BotLoops)

\* the orders of the specification of the run coordinator: holdings, or one
\* real order of one symbol
RunOrders == {o \in Orders :
    o.holdings \/ (~o.dry /\ o.action = "buy" /\ Len(o.stocks) = 1)}

\* the credential lists up to a renaming of the credentials (the code only
\* compares them with each other)
RunCredLists == {l \in CredLists : l[1] = "alice:pw1:555"}

\* the run from the command line for each of these, and the run from the
\* chat bot for the holdings of one credential set
InitRun ==
    \/ InitWith(RunCredLists, RunOrders, {NoBotLoop})
    \/ InitWith({<<"alice:pw1:555">>}, {o \in RunOrders : o.holdings},
                {BothBotLoop})

\* the inputs of the specification of the order execution: one credential
\* set, every order that is not a holdings request from the command line and
\* one real order from the chat bot
InitOrders ==
    \/ InitWith({l \in CredLists : Len(l) = 1}, {o \in Orders : ~o.holdings},
                {NoBotLoop})
    \/ InitWith({<<"alice:pw1:555">>}, {o \in RunOrders : ~o.holdings},
                {BothBotLoop})

(***************************************************************************)
(* wellsfargo_run: the loop over the credential list.                      *)
(***************************************************************************)
\* an except clause that catches TimeoutException only
ExceptTimeoutOnly(kind) ==
    IF kind = "TimeoutException" THEN "run_except" ELSE "escaped"

\* "except Exception" of wellsfargo_run (line 81): where an exception raised
\* in the try body goes
RunExcept(kind) == IF kind \in Raised THEN "run_except" ELSE "escaped"

\* "except Exception" around driver.close() / driver.quit() in the finally
\* clause (line 91): where an exception raised while closing goes
RunCloseExcept(kind) == IF kind \in Raised THEN "run_next" ELSE "escaped"

\* an exception of kind leaves the function called from the try body of
\* wellsfargo_run
Propagate(kind) == pc' = RunExcept(kind)

\* lines 46-60: the loop head, up to the call of wellsfargo_init_single
RunFor ==
    /\ pc = "run_for"
    /\ IF pos <= Len(accounts)
       THEN /\ index' = IndexOf(accounts, accounts[pos])
            /\ runDriver' = FALSE
            /\ wfObj' = "unset"
            /\ loginAttempts' = Append(loginAttempts, pos)
            /\ pc' = "init_driver"
       ELSE /\ pc' = "done"
            /\ UNCHANGED <<index, runDriver, wfObj, loginAttempts>>
    /\ UNCHANGED <<inputVars, pos, session, initVars, txnVars, holdVars>>

\* lines 62-80: after wellsfargo_init_single returned
RunAfterInit ==
    /\ pc = "run_after_init"
    /\ IF wfObj = "obj"
       THEN /\ runDriver' = TRUE
            /\ pc' = IF order.holdings THEN "hold_nav" ELSE "txn_nav"
       ELSE /\ pc' = "run_finally"
            /\ UNCHANGED runDriver
    /\ ResetInit
    /\ UNCHANGED <<inputVars, pos, index, wfObj, session, loginAttempts,
                   registry, blocks, loginTimedOut, txnVars, holdVars>>

\* lines 81-83: the exception handler of the loop body; the locals of the
\* function that raised are gone
RunExceptHandler ==
    /\ pc = "run_except"
    /\ pc' = "run_finally"
    /\ ResetInit
    /\ ResetOperation
    /\ UNCHANGED <<inputVars, pos, index, runDriver, wfObj, session,
                   loginAttempts, registry, blocks, loginTimedOut>>

\* lines 84-88 and 93-94: the finally clause, up to driver.close()
RunFinallyClose ==
    /\ pc = "run_finally"
    /\ IF runDriver
       THEN \E r \in {"ok", "Exception"} :
                /\ session' = [session EXCEPT ![pos] = "closed"]
                /\ pc' = IF r = "ok" THEN "run_quit" ELSE RunCloseExcept(r)
       ELSE /\ pc' = "run_next"
            /\ UNCHANGED session
    /\ UNCHANGED <<inputVars, pos, index, runDriver, wfObj, loginAttempts,
                   initVars, txnVars, holdVars>>

\* lines 89-92: driver.quit() in the finally clause
RunFinallyQuit ==
    /\ pc = "run_quit"
    /\ \E r \in {"ok", "Exception"} :
        /\ session' = [session EXCEPT ![pos] = "quit"]
        /\ pc' = IF r = "ok" THEN "run_next" ELSE RunCloseExcept(r)
    /\ UNCHANGED <<inputVars, pos, index, runDriver, wfObj, loginAttempts,
                   initVars, txnVars, holdVars>>

\* line 96 and the next iteration: the locals of the iteration are gone
RunNext ==
    /\ pc = "run_next"
    /\ pos' = pos + 1
    /\ pc' = "run_for"
    /\ ResetInit
    /\ ResetRegistry
    /\ ResetOperation
    /\ UNCHANGED <<inputVars, index, runDriver, wfObj, session, loginAttempts>>

(***************************************************************************)
(* wellsfargo_init_single: the login.                                      *)
(***************************************************************************)
\* "return None" / "return wf_obj" of wellsfargo_init_single
InitReturn(value) ==
    /\ wfObj' = value
    /\ pc' = "run_after_init"

\* lines 117-124: get_selenium_driver returns a driver, returns None (the
\* code raises), or raises
InitGetDriver ==
    /\ pc = "init_driver"
    /\ \E r \in {"driver", "None", "Exception"} :
        IF r = "driver"
        THEN /\ initDriver' = TRUE
             /\ session' = [session EXCEPT ![pos] = "open"]
             /\ pc' = "init_get"
        ELSE /\ pc' = "init_except"
             /\ UNCHANGED <<initDriver, session>>
    /\ UNCHANGED <<inputVars, pos, index, runDriver, wfObj, loginAttempts,
                   shot, otpRequests, registry, blocks, initRaised,
                   loginTimedOut, txnVars, holdVars>>

\* lines 125-126: driver.get and the wait for the page, outside the inner try
InitNavigate ==
    /\ pc = "init_get"
    /\ \E r \in Outcomes :
        pc' = IF r = "ok" THEN "init_login" ELSE "init_except"
    /\ UNCHANGED <<inputVars, pos, index, runDriver, wfObj, session,
                   loginAttempts, initVars, txnVars, holdVars>>

\* the except clauses that guard lines 129-141: TimeoutException is handled
\* by the inner clause (line 142), anything else by the outer one (line 214)
LoginExcept(kind) ==
    IF kind = "TimeoutException" THEN "init_timeout_close" ELSE "init_except"

\* lines 128-141: credentials, the login button and the wait for the page
InitLogin ==
    /\ pc = "init_login"
    /\ \E r \in Outcomes :
        pc' = IF r = "ok" THEN "init_popup" ELSE LoginExcept(r)
    /\ UNCHANGED <<inputVars, pos, index, runDriver, wfObj, session,
                   loginAttempts, initVars, txnVars, holdVars>>

\* lines 142-145: the login timed out; driver.close().  An exception of
\* close() is raised inside the outer try and lands in its except clause.
InitTimeoutClose ==
    /\ pc = "init_timeout_close"
    /\ loginTimedOut' = TRUE
    /\ \E r \in {"ok", "Exception"} :
        /\ session' = [session EXCEPT ![pos] = "closed"]
        /\ pc' = IF r = "ok" THEN "init_timeout_quit" ELSE "init_except"
    /\ UNCHANGED <<inputVars, pos, index, runDriver, wfObj, loginAttempts,
                   initDriver, shot, otpRequests, registry, blocks, initRaised,
                   txnVars, holdVars>>

\* lines 146-147: driver.quit() and return None
InitTimeoutQuit ==
    /\ pc = "init_timeout_quit"
    /\ \E r \in {"ok", "Exception"} :
        /\ session' = [session EXCEPT ![pos] = "quit"]
        /\ IF r = "ok"
           THEN InitReturn("None")
           ELSE pc' = "init_except" /\ UNCHANGED wfObj
    /\ UNCHANGED <<inputVars, pos, index, runDriver, loginAttempts,
                   initVars, txnVars, holdVars>>

\* except clauses that swallow nothing
ExceptFails(kind) == "init_except"

\* the except clauses that guard lines 152-184: TimeoutException is swallowed
\* (line 185) and the login goes on at line 188
HandshakeExcept(kind) ==
    IF kind = "TimeoutException" THEN "init_landmark" ELSE "init_except"

\* the place a raise inside the try of lines 151-184 leaves the login at
HandshakeRaise(kind) ==
    IF kind = "TimeoutException" THEN "init_handshake_timeout"
    ELSE "init_handshake_error"

\* lines 149-159: register the driver, wait for the authentication popup
InitAuthPopup ==
    /\ pc = "init_popup"
    /\ \E r \in Outcomes :
        pc' = IF r = "ok" THEN "init_otp" ELSE HandshakeRaise(r)
    /\ UNCHANGED <<inputVars, pos, index, runDriver, wfObj, session,
                   loginAttempts, initVars, txnVars, holdVars>>

\* a choice of the source of the code that looks at the notifier only
SourceByBot(bl) == IF bl.bot THEN "notifier" ELSE "prompt"

\* "if bot_obj is not None and loop is not None:" (line 170)
OtpSource(bl) == IF bl.bot /\ bl.loop THEN "notifier" ELSE "prompt"

\* lines 160-176: pick the phone number, then request the one-time code
\* from the notifier on the loop (lines 171-174) or from input() (line 176)
InitOtp ==
    /\ pc = "init_otp"
    /\ \E r \in {"ok", "Exception"} :
        IF r = "Exception"         \* finding the list raised: no code requested
        THEN /\ pc' = "init_except"
             /\ UNCHANGED otpRequests
        ELSE /\ otpRequests' = otpRequests + 1
             /\ pc' = IF OtpSource(botLoop) = "notifier"
                      THEN "init_otp_notifier" ELSE "init_otp_prompt"
    /\ UNCHANGED <<inputVars, pos, index, runDriver, wfObj, session,
                   loginAttempts, initDriver, shot, registry, blocks,
                   initRaised, loginTimedOut, txnVars, holdVars>>

\* line 174: .result() blocks until get_otp_from_discord(..., timeout=300)
\* resolves, with the code or with nothing, or raises
InitNotifierResult ==
    /\ pc = "init_otp_notifier"
    /\ \E r \in {"ok", "Exception"} :
        pc' = IF r = "ok" THEN "init_code" ELSE "init_except"
    /\ UNCHANGED <<inputVars, pos, index, runDriver, wfObj, session,
                   loginAttempts, initVars, txnVars, holdVars>>

\* line 176: input() blocks until the operator enters a line, or raises
\* (EOFError)
InitPromptResult ==
    /\ pc = "init_otp_prompt"
    /\ \E r \in {"ok", "Exception"} :
        pc' = IF r = "ok" THEN "init_code" ELSE "init_except"
    /\ UNCHANGED <<inputVars, pos, index, runDriver, wfObj, session,
                   loginAttempts, initVars, txnVars, holdVars>>

\* lines 177-184: wait for the code field, type the code, click submit
InitCodeEntry ==
    /\ pc = "init_code"
    /\ \E r \in Outcomes :
        pc' = IF r = "ok" THEN "init_landmark" ELSE HandshakeRaise(r)
    /\ UNCHANGED <<inputVars, pos, index, runDriver, wfObj, session,
                   loginAttempts, initVars, txnVars, holdVars>>

\* lines 185-186 and 214: the except clauses a raise of lines 151-184 meets
InitHandshakeExcept ==
    /\ pc \in {"init_handshake_timeout", "init_handshake_error"}
    /\ pc' = HandshakeExcept(IF pc = "init_handshake_timeout"
                             THEN "TimeoutException" ELSE "Exception")
    /\ UNCHANGED <<inputVars, pos, index, runDriver, wfObj, session,
                   loginAttempts, initVars, txnVars, holdVars>>

\* lines 188-190: wait for the post-login landmark
InitLandmark ==
    /\ pc = "init_landmark"
    /\ \E r \in Outcomes :
        pc' = IF r = "ok" THEN "init_discover" ELSE "init_except"
    /\ UNCHANGED <<inputVars, pos, index, runDriver, wfObj, session,
                   loginAttempts, initVars, txnVars, holdVars>>

\* masked_number_element.text.replace(".", "*") (line 202)
MaskOf(a) == Replace(MaskedText(a), ".", "*")

\* Brokerage.set_account_number(name, mask): appends mask to the account
\* numbers kept under name
SetAccountNumber(reg, mask) == Append(reg, mask)

RECURSIVE Discovered(_)
\* lines 197-209: the registry after the loop over the account blocks bs
Discovered(bs) ==
    IF bs = <<>> THEN <<>>
    ELSE SetAccountNumber(Discovered(SubSeq(bs, 1, Len(bs) - 1)),
                          MaskOf(bs[Len(bs)]))

\* the account blocks a landing page can show, in page order
BlockSeqs == {bs \in SeqsOf(Accts, 0, MaxBlocks) : Distinct(bs)}

\* lines 193-212: account discovery; a block without the expected elements
\* or with an unparsable balance raises
InitDiscover ==
    /\ pc = "init_discover"
    /\ \/ \E bs \in BlockSeqs :
            /\ blocks' = bs
            /\ registry' = Discovered(bs)
            /\ InitReturn("obj")
       \/ /\ pc' = "init_except"
          /\ UNCHANGED <<blocks, registry, wfObj>>
    /\ UNCHANGED <<inputVars, pos, index, runDriver, session, loginAttempts,
                   initDriver, shot, otpRequests, initRaised, loginTimedOut,
                   txnVars, holdVars>>

\* lines 214-218 and 25-28: the outer except clause; with a driver,
\* _wellsfargo_error saves a screenshot, which raises when the browser is gone
InitExceptScreenshot ==
    /\ pc = "init_except"
    /\ IF initDriver
       THEN \E r \in {"ok", "Exception"} :
                IF r = "ok"
                THEN /\ shot' = TRUE
                     /\ pc' = "init_except_close"
                     /\ UNCHANGED <<initRaised, wfObj>>
                ELSE /\ initRaised' = TRUE
                     /\ Propagate(r)
                     /\ UNCHANGED <<shot, wfObj>>
       ELSE /\ InitReturn("None")
            /\ UNCHANGED <<shot, initRaised>>
    /\ UNCHANGED <<inputVars, pos, index, runDriver, session, loginAttempts,
                   initDriver, otpRequests, registry, blocks, loginTimedOut,
                   txnVars, holdVars>>

\* line 219: driver.close() in the outer except clause
InitExceptClose ==
    /\ pc = "init_except_close"
    /\ \E r \in {"ok", "Exception"} :
        /\ session' = [session EXCEPT ![pos] =
                          IF @ = "quit" THEN "quit" ELSE "closed"]
        /\ IF r = "ok"
           THEN pc' = "init_except_quit" /\ UNCHANGED initRaised
           ELSE initRaised' = TRUE /\ Propagate(r)
    /\ UNCHANGED <<inputVars, pos, index, runDriver, wfObj, loginAttempts,
                   initDriver, shot, otpRequests, registry, blocks,
                   loginTimedOut, txnVars, holdVars>>

\* lines 220-221: driver.quit() in the outer except clause, and return None
InitExceptQuit ==
    /\ pc = "init_except_quit"
    /\ \E r \in {"ok", "Exception"} :
        /\ session' = [session EXCEPT ![pos] = "quit"]
        /\ IF r = "ok"
           THEN InitReturn("None") /\ UNCHANGED initRaised
           ELSE initRaised' = TRUE /\ Propagate(r) /\ UNCHANGED wfObj
    /\ UNCHANGED <<inputVars, pos, index, runDriver, loginAttempts,
                   initDriver, shot, otpRequests, registry, blocks,
                   loginTimedOut, txnVars, holdVars>>

(***************************************************************************)
(* wellsfargo_transaction_single: the order execution.                     *)
(***************************************************************************)
\* the account entries a live dropdown can list, in any order
Dropdowns == {dd \in SeqsOf(Accts, 0, MaxEntries) : Distinct(dd)}

\* a script that clicks the first entry whatever its text
FindFirstEntry(dd, arg) == IF dd = <<>> THEN "none" ELSE dd[1]

\* the find_account script (lines 444-457 and 288-301): the account whose
\* entry is the first one with arg in its text (the script clicks it and
\* returns its index), or "none" (the script returns -1)
FindAccount(dd, arg) ==
    IF \E i \in 1..Len(dd) : Includes(EntryText(dd[i]), arg)
    THEN dd[CHOOSE i \in 1..Len(dd) :
                /\ Includes(EntryText(dd[i]), arg)
                /\ \A j \in 1..(i - 1) : ~Includes(EntryText(dd[j]), arg)]
    ELSE "none"

\* account_masks[account].replace("*", "") (lines 456 and 300)
Unmasked(mask) == Remove(mask, "*")

(***************************************************************************)
(* The pricing of lines 524-533.  A price is a Python float: the model     *)
(* keeps a non-negative double below 4 as <<h, m, l>>, the three digits in *)
(* base 2^21 of its multiple of 2^-61, and rounds to the 53 significant    *)
(* binary digits of a double, ties to even, as float(), + and - do.        *)
(***************************************************************************)
\* the base of the three digits of a price
Base == 2 ^ 21

\* the significant binary digits of a float
Significand == 53

\* the number of binary digits of h >= 1
BitLen(h) == CHOOSE k \in 1..31 : 2 ^ (k - 1) <= h /\ (k = 31 \/ h < 2 ^ k)

\* x with the carries between its digits settled
Carried(x) ==
    LET l == x[3] % Base
        m == x[2] + (x[3] \div Base)
    IN <<x[1] + (m \div Base), m % Base, l>>

\* x rounded to Significand binary digits, ties to even; sticky says that
\* the exact value exceeds x
Round(x, sticky) ==
    IF x[1] = 0 THEN x
    ELSE LET drop == BitLen(x[1]) + 42 - Significand IN
         IF drop <= 0 THEN x
         ELSE LET unit == 2 ^ drop
                  low  == x[3] % unit
                  odd  == (x[3] \div unit) % 2 = 1
                  up   == \/ 2 * low > unit
                          \/ 2 * low = unit /\ (sticky \/ odd)
              IN Carried(<<x[1], x[2], x[3] - low + (IF up THEN unit ELSE 0)>>)

\* float(text) for the text of n cents, "0.05" for 5: the double nearest to
\* n / 100 (line 524)
D(n) ==
    LET t1 == n * 2 ^ 19
        t2 == (t1 % 100) * Base
        t3 == (t2 % 100) * Base
    IN Round(<<t1 \div 100, t2 \div 100, t3 \div 100>>, t3 % 100 # 0)

\* a + b on floats (line 528)
FAdd(a, b) == Round(Carried(<<a[1] + b[1], a[2] + b[2], a[3] + b[3]>>), FALSE)

\* a - b on floats, for a >= b (line 531)
FSub(a, b) == Round(Carried(<<a[1] - b[1], a[2] - b[2], a[3] - b[3]>>), FALSE)

\* price < price_cuttoff with price_cuttoff = 2 (lines 525, 526 and 529)
BelowCutoff(f) == f[1] < 2 ^ 20

\* the largest quote, in cents
MaxQuote == 201

\* the quotes (in cents) the page shows while a run places orders
Quotes == {5, 199, 200}

\* lines 526-533: price_type
PriceType(action, q) ==
    LET f == D(q) IN
    IF Lower(action) = "buy" /\ BelowCutoff(f) THEN "Limit"
    ELSE IF Lower(action) = "sell" /\ BelowCutoff(f) THEN "Limit"
    ELSE "Market"

\* lines 526-533: price after the adjustment
AdjustedPrice(action, q) ==
    LET f == D(q) IN
    IF Lower(action) = "buy" /\ BelowCutoff(f) THEN FAdd(f, D(1))
    ELSE IF Lower(action) = "sell" /\ BelowCutoff(f) THEN FSub(f, D(1))
    ELSE f

\* a guard that skips every index
SkipEvery(i, reg) == TRUE

\* "if account >= len(account_masks): continue" (lines 278-279, 420-421)
SkipIndex(i, reg) == i >= Len(reg)

\* the loop "for account in range(accounts)" moves to its next iteration
NextAccount ==
    /\ acct' = acct + 1
    /\ sidx' = 0
    /\ selected' = "none"
    /\ pc' = "txn_account"

\* the loop "for s in order_obj.get_stocks()" moves to its next iteration,
\* or ends and the account loop moves on
NextSymbol ==
    IF sidx < Len(order.stocks)
    THEN /\ sidx' = sidx + 1
         /\ pc' = "txn_symbol"
         /\ UNCHANGED <<acct, selected>>
    ELSE NextAccount

\* the symbol attempt is over: the quote and the order type are read anew
EndAttempt ==
    /\ price' = <<>>
    /\ priceType' = "none"
    /\ resetDone' = FALSE

\* lines 383-417: navigate to the trade screen and count the entries of the
\* account dropdown; a TimeoutException returns, another exception escapes
TxnNavigate ==
    /\ pc = "txn_nav"
    /\ \E r \in Outcomes :
        IF r = "ok"
        THEN \E n \in 0..MaxEntries :
                /\ nAccounts' = n
                /\ acct' = 0
                /\ orderFailed' = FALSE
                /\ pc' = "txn_account"
        ELSE /\ IF r = "TimeoutException" THEN pc' = "txn_return" ELSE Propagate(r)
             /\ UNCHANGED <<nAccounts, acct, orderFailed>>
    /\ UNCHANGED <<inputVars, pos, index, runDriver, wfObj, session,
                   loginAttempts, initVars, sidx, selected, attempts, outcome,
                   submits, resetDone, price, priceType, holdVars>>

\* lines 418-421: the head of the account loop; the wait for the page is
\* outside every try
TxnAccount ==
    /\ pc = "txn_account"
    /\ IF acct < nAccounts
       THEN \E r \in Outcomes :
                IF r # "ok" THEN Propagate(r) /\ UNCHANGED <<acct, sidx, selected>>
                ELSE IF SkipIndex(acct, registry) THEN NextAccount
                ELSE pc' = "txn_select" /\ UNCHANGED <<acct, sidx, selected>>
       ELSE pc' = "txn_return" /\ UNCHANGED <<acct, sidx, selected>>
    /\ UNCHANGED <<inputVars, pos, index, runDriver, wfObj, session,
                   loginAttempts, initVars, nAccounts, orderFailed,
                   attempts, outcome, submits, resetDone, price, priceType,
                   holdVars>>

\* a reset before the selector that does not look at the dry-run flag
ResetOnFailure(failed, dry) == failed

\* "if order_failed and order_obj.get_dry():" (line 423): the reset sequence
\* of lines 424-439 runs before the dropdown is opened
AccountReset(failed, dry) == failed /\ dry

\* "if order_failed:" (line 472): the reset sequence of lines 473-488 runs
\* before the buy/sell chooser is opened
SymbolReset(failed, dry) == failed

\* lines 422-468: reset the trade screen when order_failed and dry, open the
\* dropdown and select the account; every exception skips the account
TxnSelect ==
    /\ pc = "txn_select"
    /\ \/ \E dd \in Dropdowns :
            LET found == FindAccount(dd, Unmasked(registry[acct + 1])) IN
            IF found = "none"
            THEN NextAccount /\ resetDone' = FALSE
            ELSE /\ selected' = found
                 /\ resetDone' = AccountReset(orderFailed, order.dry)
                 /\ sidx' = 1
                 /\ pc' = "txn_symbol"
                 /\ UNCHANGED acct
       \/ /\ NextAccount             \* the reset or the selection raised
          /\ resetDone' = FALSE
    /\ UNCHANGED <<inputVars, pos, index, runDriver, wfObj, session,
                   loginAttempts, initVars, nAccounts, orderFailed, attempts,
                   outcome, submits, price, priceType, holdVars>>

\* lines 469-551: one symbol up to the review click: the reset sequence when
\* order_failed, the buy/sell chooser, the ticker, the quantity, the quote
\* and the order type.  Nothing here is inside a try.
TxnPrepare ==
    /\ pc = "txn_symbol"
    /\ attempts' = [attempts EXCEPT ![<<acct, sidx>>] = @ + 1]
    /\ outcome' = "none"
    /\ \E r \in Outcomes :
        IF r # "ok"
        THEN /\ Propagate(r)
             /\ UNCHANGED <<resetDone, price, priceType>>
        ELSE IF Lower(order.action) \notin {"buy", "sell"}
        THEN /\ Propagate("Exception")   \* action.click(): action is unbound
             /\ resetDone' = SymbolReset(orderFailed, order.dry)
             /\ UNCHANGED <<price, priceType>>
        ELSE \E q \in Quotes :
             /\ resetDone' = SymbolReset(orderFailed, order.dry)
             /\ priceType' = PriceType(order.action, q)
             /\ price' = AdjustedPrice(order.action, q)
             /\ pc' = "txn_submit"
    /\ UNCHANGED <<inputVars, pos, index, runDriver, wfObj, session,
                   loginAttempts, initVars, nAccounts, acct, sidx, orderFailed,
                   selected, submits, holdVars>>

\* a submission that does not look at the dry-run flag
SubmitAlways(dry) == "submit"

\* lines 553 and 573: which branch of the submission the order takes
SubmitBranch(dry) == IF ~dry THEN "submit" ELSE "dry"

\* an order_failed that a dry-run recording leaves false
FailedOnlyOnFailure(result) == result = "FAILED"

\* order_failed after an attempt reported result: False at line 572, True
\* at lines 578 and 584
OrderFailedAfter(result) == result \in {"DRY", "FAILED"}

\* lines 552-578: the submission branch
TxnSubmit ==
    /\ pc = "txn_submit"
    /\ IF SubmitBranch(order.dry) = "submit"
       THEN \/ /\ submits' = submits + 1       \* lines 554-572
               /\ outcome' = "SUBMITTED"
               /\ \/ /\ orderFailed' = OrderFailedAfter("SUBMITTED")
                     /\ NextSymbol
                     /\ EndAttempt
                  \/ /\ Propagate("Exception")  \* no "next order" control
                     /\ UNCHANGED <<orderFailed, acct, sidx, selected,
                                    price, priceType, resetDone>>
            \/ /\ pc' = "txn_failed"    \* the submit control never clickable
               /\ UNCHANGED <<submits, outcome, orderFailed, acct, sidx,
                              selected, price, priceType, resetDone>>
            \/ /\ Propagate("Exception")       \* the wait itself raised
               /\ UNCHANGED <<submits, outcome, orderFailed, acct, sidx,
                              selected, price, priceType, resetDone>>
       ELSE /\ outcome' = "DRY"                 \* lines 573-578
            /\ orderFailed' = OrderFailedAfter("DRY")
            /\ NextSymbol
            /\ EndAttempt
            /\ UNCHANGED submits
    /\ UNCHANGED <<inputVars, pos, index, runDriver, wfObj, session,
                   loginAttempts, initVars, nAccounts, attempts, holdVars>>

\* lines 579-601: the failure branch.  Reading the alert text, waiting for
\* the cancel control and waiting for the confirmation are not inside a try.
TxnFailure ==
    /\ pc = "txn_failed"
    /\ \/ /\ Propagate("Exception")     \* line 580: no alert-msg-summary
          /\ UNCHANGED <<orderFailed, outcome, acct, sidx, selected,
                         price, priceType, resetDone>>
       \/ /\ orderFailed' = OrderFailedAfter("FAILED")
          /\ outcome' = "FAILED"
          /\ \/ NextSymbol /\ EndAttempt
             \/ /\ Propagate("TimeoutException")   \* lines 590-601
                /\ UNCHANGED <<acct, sidx, selected, price, priceType,
                               resetDone>>
    /\ UNCHANGED <<inputVars, pos, index, runDriver, wfObj, session,
                   loginAttempts, initVars, nAccounts, attempts, submits,
                   holdVars>>

\* wellsfargo_transaction_single returns to line 78
TxnReturn ==
    /\ pc = "txn_return"
    /\ pc' = "run_finally"
    /\ ResetOperation
    /\ UNCHANGED <<inputVars, pos, index, runDriver, wfObj, session,
                   loginAttempts, initVars>>

(***************************************************************************)
(* The field extraction of wellsfargo_holdings_single (lines 315-326 and   *)
(* 343-354).                                                               *)
(***************************************************************************)
IsDigit(c) == c \in {"0", "1", "2", "3", "4", "5", "6", "7", "8", "9"}

DigitVal(c) ==
    CASE c = "0" -> 0 [] c = "1" -> 1 [] c = "2" -> 2 [] c = "3" -> 3
      [] c = "4" -> 4 [] c = "5" -> 5 [] c = "6" -> 6 [] c = "7" -> 7
      [] c = "8" -> 8 [] c = "9" -> 9

\* \d+ is greedy: the last position of the run of digits that starts at j
RunEnd(u, j) == CHOOSE k \in j..Len(u) :
    /\ \A x \in j..k : IsDigit(u[x])
    /\ k = Len(u) \/ ~IsDigit(u[k + 1])

\* the last position of the match of -?\d+(\.\d+)? that starts at i, or 0
\* when the pattern does not match at i
MatchEnd(u, i) ==
    LET j == IF u[i] = "-" THEN i + 1 ELSE i IN
    IF j > Len(u) \/ ~IsDigit(u[j]) THEN 0
    ELSE LET k == RunEnd(u, j) IN
         IF k + 2 <= Len(u) /\ u[k + 1] = "." /\ IsDigit(u[k + 2])
         THEN RunEnd(u, k + 2)
         ELSE k

\* re.search(r"-?\d+(\.\d+)?", u): the leftmost match, or <<>> for None
AmountSearch(u) ==
    IF \E i \in 1..Len(u) : MatchEnd(u, i) > 0
    THEN LET i == CHOOSE x \in 1..Len(u) :
                    /\ MatchEnd(u, x) > 0
                    /\ \A y \in 1..(x - 1) : MatchEnd(u, y) = 0
         IN SubSeq(u, i, MatchEnd(u, i))
    ELSE <<>>

RECURSIVE IntVal(_)
\* the number a run of digits denotes
IntVal(d) ==
    IF d = <<>> THEN 0
    ELSE 10 * IntVal(SubSeq(d, 1, Len(d) - 1)) + DigitVal(d[Len(d)])

RECURSIVE Pow10(_)
Pow10(n) == IF n = 0 THEN 1 ELSE 10 * Pow10(n - 1)

\* the digits kept after the decimal point of a parsed number
FracDigits == 7

\* float(m) for a text m of the form -?\d+(\.\d+)?: the sign, the units and
\* the fraction in units of 10^-FracDigits (two texts of at most 15 digits
\* denote the same double exactly when they denote the same number)
Float(m) ==
    LET neg  == m[1] = "-"
        body == IF neg THEN Tail(m) ELSE m
        dot  == IF \E i \in 1..Len(body) : body[i] = "."
                THEN CHOOSE i \in 1..Len(body) : body[i] = "."
                ELSE Len(body) + 1
        ip   == IntVal(SubSeq(body, 1, dot - 1))
        fd   == SubSeq(body, dot + 1, Len(body))
        fp   == IntVal(fd) * Pow10(FracDigits - Len(fd))
    IN [neg |-> neg /\ (ip # 0 \/ fp # 0), units |-> ip, frac |-> fp]

\* lines 316-319 and 325, 332: the quantity or the price of a cell text
ExtractNumber(text) ==
    LET m == AmountSearch(Remove(text, "\n")) IN
    Float(IF m # <<>> THEN m ELSE <<"0">>)

\* re.search(r"^[^\n]*", text).group(0): the text up to the first newline
FirstLine(text) ==
    IF \E i \in 1..Len(text) : text[i] = "\n"
    THEN SubSeq(text, 1, (CHOOSE i \in 1..Len(text) :
                            /\ text[i] = "\n"
                            /\ \A j \in 1..(i - 1) : text[j] # "\n") - 1)
    ELSE text

IsSpace(c) == c \in {" ", "\n", "\t"}

RECURSIVE LStrip(_)
LStrip(t) == IF t # <<>> /\ IsSpace(Head(t)) THEN LStrip(Tail(t)) ELSE t

RECURSIVE RStrip(_)
RStrip(t) ==
    IF t # <<>> /\ IsSpace(t[Len(t)]) THEN RStrip(SubSeq(t, 1, Len(t) - 1)) ELSE t

\* str.strip()
Strip(t) == RStrip(LStrip(t))

\* a name that keeps every line of the cell
WholeName(text) == Strip(text)

\* lines 315, 324 and 331: the symbol of a name cell
ExtractName(text) == Strip(FirstLine(text))

(***************************************************************************)
(* wellsfargo_holdings_single: the holdings collection.                    *)
(***************************************************************************)
\* len(cells) >= 9 (lines 314 and 342)
MinCells == 9

\* the table rows of the positions page of account a: for each row the
\* number of its cells and the texts of cells 1, 3 and 4
PageOf(a) ==
    CASE a = "A" ->
           <<[cells |-> 9, name |-> <<"A", "B", "\n", "I", "n", "c">>,
              qty |-> <<"1", "0">>,
              price |-> <<"$", "1", "5", ".", "2", "5">>]>>
      [] a = "B" ->
           <<[cells |-> 8, name |-> <<"S", "y", "m">>,
              qty |-> <<"Q", "t", "y">>, price |-> <<"$">>],
             [cells |-> 10, name |-> <<" ", "T", "S", " ">>,
              qty |-> <<"1", ",", "2", "3", "4">>,
              price |-> <<"n", "/", "a">>]>>
      [] a = "C" -> <<>>

\* Brokerage.set_holdings(name, mask, stock, quantity, price): appends a
\* record to the holdings kept under name
SetHoldings(h, mask, stock, quantity, cost) ==
    Append(h, [mask |-> mask, symbol |-> stock, quantity |-> quantity,
               price |-> cost])

RECURSIVE RowFields(_)
\* lines 313-326 and 341-354: the name, the quantity and the price extracted
\* from each of rows that has MinCells cells or more
RowFields(rows) ==
    IF rows = <<>> THEN <<>>
    ELSE LET row == Head(rows) IN
         (IF row.cells >= MinCells
          THEN <<[symbol |-> ExtractName(row.name),
                  quantity |-> ExtractNumber(row.qty),
                  price |-> ExtractNumber(row.price)]>>
          ELSE <<>>) \o RowFields(Tail(rows))

\* the fields extracted from the positions page of each account
PageFields == [a \in Accts |-> RowFields(PageOf(a))]

RECURSIVE Scrape(_, _, _)
\* lines 312-334 and 340-362: the holdings h after the loop over the rows
\* with the fields fs
Scrape(h, fs, mask) ==
    IF fs = <<>> THEN h
    ELSE Scrape(SetHoldings(h, mask, fs[1].symbol, fs[1].quantity, fs[1].price),
                Tail(fs), mask)

\* the entries of the holdings dropdown that are no accounts (line 275)
NonAccountEntries == 3

\* lines 230-249: navigate to the positions view.  A TimeoutException of the
\* first wait returns (line 364); an exception of the inner try is reported
\* with a screenshot and returns; a failing screenshot escapes
HoldNavigate ==
    /\ pc = "hold_nav"
    /\ \/ pc' = "hold_layout" /\ UNCHANGED shot
       \/ pc' = "hold_return" /\ UNCHANGED shot          \* lines 364-367
       \/ Propagate("Exception") /\ UNCHANGED shot
       \/ pc' = "hold_return" /\ shot' = TRUE            \* lines 247-249
       \/ Propagate("Exception") /\ UNCHANGED shot       \* line 27 raised
    /\ UNCHANGED <<inputVars, pos, index, runDriver, wfObj, session,
                   loginAttempts, initDriver, otpRequests, registry, blocks,
                   initRaised, loginTimedOut, txnVars, holdVars>>

\* lines 251-275: probe for the dropdown, read the masks, and on the
\* multi-account path count the entries
HoldLayout ==
    /\ pc = "hold_layout"
    /\ \/ /\ registry = <<>>                 \* lines 261-263
          /\ pc' = "hold_return"
          /\ UNCHANGED <<nAccounts, acct>>
       \/ /\ registry # <<>>                 \* line 258: single account
          /\ pc' = "hold_rows_single"
          /\ UNCHANGED <<nAccounts, acct>>
       \/ /\ registry # <<>>                 \* lines 265-275
          /\ \E n \in 0..(MaxEntries + NonAccountEntries) :
                /\ nAccounts' = n - NonAccountEntries
                /\ acct' = 0
                /\ pc' = "hold_account"
       \/ /\ registry # <<>>                 \* line 267 timed out
          /\ pc' = "hold_return"
          /\ UNCHANGED <<nAccounts, acct>>
       \/ /\ Propagate("Exception")
          /\ UNCHANGED <<nAccounts, acct>>
    /\ UNCHANGED <<inputVars, pos, index, runDriver, wfObj, session,
                   loginAttempts, initVars, sidx, orderFailed, selected,
                   attempts, outcome, submits, resetDone, price, priceType,
                   holdVars>>

\* lines 277-307: the head of the account loop and the selection of the
\* account; every exception of the selection skips the account
HoldAccount ==
    /\ pc = "hold_account"
    /\ IF acct < nAccounts
       THEN IF SkipIndex(acct, registry)
            THEN /\ acct' = acct + 1
                 /\ selected' = "none"
                 /\ pc' = "hold_account"
            ELSE \/ \E dd \in Dropdowns :
                      LET found == FindAccount(dd, Unmasked(registry[acct + 1])) IN
                      /\ selected' = found
                      /\ IF found = "none"
                         THEN acct' = acct + 1 /\ pc' = "hold_account"
                         ELSE pc' = "hold_rows" /\ UNCHANGED acct
                 \/ /\ acct' = acct + 1      \* lines 305-307
                    /\ selected' = "none"
                    /\ pc' = "hold_account"
       ELSE /\ pc' = "hold_return"
            /\ UNCHANGED <<acct, selected>>
    /\ UNCHANGED <<inputVars, pos, index, runDriver, wfObj, session,
                   loginAttempts, initVars, nAccounts, sidx, orderFailed,
                   attempts, outcome, submits, resetDone, price, priceType,
                   holdVars>>

\* lines 309-334: scrape the rows of the selected account
HoldRows ==
    /\ pc = "hold_rows"
    /\ \/ /\ holdings' = Scrape(holdings, PageFields[selected], registry[acct + 1])
          /\ acct' = acct + 1
          /\ selected' = "none"
          /\ pc' = "hold_account"
       \/ /\ Propagate("Exception")
          /\ UNCHANGED <<holdings, acct, selected>>
    /\ UNCHANGED <<inputVars, pos, index, runDriver, wfObj, session,
                   loginAttempts, initVars, nAccounts, sidx, orderFailed,
                   attempts, outcome, submits, resetDone, price, priceType>>

\* lines 336-362: the single-account path scrapes the page of the only
\* account under the first mask
HoldRowsSingle ==
    /\ pc = "hold_rows_single"
    /\ \/ /\ holdings' = Scrape(holdings, PageFields[blocks[1]], registry[1])
          /\ pc' = "hold_return"
       \/ /\ Propagate("Exception")
          /\ UNCHANGED holdings
    /\ UNCHANGED <<inputVars, pos, index, runDriver, wfObj, session,
                   loginAttempts, initVars, txnVars>>

\* wellsfargo_holdings_single returns to line 74; print_all_holdings
HoldReturn ==
    /\ pc = "hold_return"
    /\ pc' = "run_finally"
    /\ ResetOperation
    /\ shot' = FALSE
    /\ UNCHANGED <<inputVars, pos, index, runDriver, wfObj, session,
                   loginAttempts, initDriver, otpRequests, registry, blocks,
                   initRaised, loginTimedOut>>

RunNextStep ==
    \/ RunFor
    \/ RunAfterInit
    \/ RunExceptHandler
    \/ RunFinallyClose
    \/ RunFinallyQuit
    \/ RunNext

\* the steps of the login that end by themselves: a page load and a script
\* run under the timeouts of the driver, a wait has an explicit timeout and
\* the notifier is called with timeout=300
InitBounded ==
    \/ InitGetDriver
    \/ InitNavigate
    \/ InitLogin
    \/ InitTimeoutClose
    \/ InitTimeoutQuit
    \/ InitAuthPopup
    \/ InitOtp
    \/ InitNotifierResult
    \/ InitCodeEntry
    \/ InitHandshakeExcept
    \/ InitLandmark
    \/ InitDiscover
    \/ InitExceptScreenshot
    \/ InitExceptClose
    \/ InitExceptQuit

InitNextStep == InitBounded \/ InitPromptResult

TxnNextStep ==
    \/ TxnNavigate
    \/ TxnAccount
    \/ TxnSelect
    \/ TxnPrepare
    \/ TxnSubmit
    \/ TxnFailure
    \/ TxnReturn

HoldNextStep ==
    \/ HoldNavigate
    \/ HoldLayout
    \/ HoldAccount
    \/ HoldRows
    \/ HoldRowsSingle
    \/ HoldReturn

Next == RunNextStep \/ InitNextStep \/ TxnNextStep \/ HoldNextStep

\* the run for every input within the bounds
Spec == Init /\ [][Next]_vars

\* the run coordinator and the login: every credential list, one order of
\* each mode
SpecRun == InitRun /\ [][Next]_vars

\* the order execution of one session: every order
NextOrders == RunNextStep \/ InitNextStep \/ TxnNextStep

SpecOrders == InitOrders /\ [][NextOrders]_vars

\* the run coordinator under the scheduling of a sequential program: a step
\* that can be taken is taken (every wait of the code is bounded and the
\* operator answers the prompt of line 176)
SpecRunFair == SpecRun /\ WF_vars(Next)

\* the order execution under the same scheduling
SpecOrdersFair == SpecOrders /\ WF_vars(NextOrders)

\* the steps that need nobody: every step but the return of input()
BoundedNext == RunNextStep \/ InitBounded \/ TxnNextStep \/ HoldNextStep

\* the run coordinator when nothing is assumed of the operator
SpecRunBounded == SpecRun /\ WF_vars(BoundedNext)

\* the holdings collection of one session
InitHoldings ==
    InitWith({l \in CredLists : Len(l) = 1}, {o \in Orders : o.holdings},
             BotLoops)

NextHoldings == RunNextStep \/ InitNextStep \/ HoldNextStep

SpecHoldings == InitHoldings /\ [][NextHoldings]_vars

\* one session: one credential set, one order of each mode
InitSession ==
    InitWith({l \in CredLists : Len(l) = 1}, RunOrders,
             {NoBotLoop, BothBotLoop})

SpecSession == InitSession /\ [][Next]_vars

(***************************************************************************)
(* The pricing and the numeric extraction on their own: the argument is    *)
(* drawn by the initial state and one step applies the code to it.         *)
(***************************************************************************)
\* a run that has not started, for the specifications of the functions
Idle ==
    RunState({<<"alice:pw1:555">>}, {o \in Orders : o.holdings}, {NoBotLoop})

\* the actions that reach line 524, and every quote up to MaxQuote cents
PriceInputs ==
    {[fn |-> "price", action |-> a, quote |-> q] :
        a \in {x \in Actions : Lower(x) \in {"buy", "sell"}}, q \in 1..MaxQuote}

InitPrice == Idle /\ fnArg \in PriceInputs /\ fnRes = NoCall

\* lines 524-533 applied to the argument
PriceStep ==
    /\ fnArg.fn = "price"
    /\ fnRes = NoCall
    /\ fnRes' = [fn |-> "price",
                 type |-> PriceType(fnArg.action, fnArg.quote),
                 price |-> AdjustedPrice(fnArg.action, fnArg.quote)]
    /\ UNCHANGED <<accounts, order, botLoop, fnArg, pos, pc, runVars,
                   initVars, txnVars, holdVars>>

SpecPrice == InitPrice /\ [][PriceStep]_vars

\* the longest cell text
MaxText == 5

\* the characters of a cell text
Chars == {"$", ",", ".", "\n", "-", "0", "1", "a"}

CellTexts == SeqsOf(Chars, 0, MaxText)

InitExtract ==
    /\ Idle
    /\ fnArg \in {[fn |-> "extract", text |-> t] : t \in CellTexts}
    /\ fnRes = NoCall

\* lines 316-319 applied to the argument
ExtractStep ==
    /\ fnArg.fn = "extract"
    /\ fnRes = NoCall
    /\ fnRes' = [fn |-> "extract", value |-> ExtractNumber(fnArg.text)]
    /\ UNCHANGED <<accounts, order, botLoop, fnArg, pos, pc, runVars,
                   initVars, txnVars, holdVars>>

SpecExtract == InitExtract /\ [][ExtractStep]_vars

(***************************************************************************)
(* The run coordinator and the login.                                      *)
(***************************************************************************)
\* the session of list position k was acquired and quit() was never called
\* on it
Leaked(k) == session[k] \in {"open", "closed"}

\* wellsfargo_run is done with list position k
MovedOn(k) == k < pos \/ (k = pos /\ pc = "run_next")

\* C1: every session wellsfargo_init_single acquired has been closed (close
\* and quit) when wellsfargo_run moves on to the next credential set or
\* finishes, on every exit path
C1_SessionClosedOnEveryExit ==
    \A k \in 1..Len(accounts) : MovedOn(k) => ~Leaked(k)

\* the list positions wellsfargo_init_single has been called for so far
Attempted == IF pc \in {"run_for", "done"} THEN pos - 1 ELSE pos

OperationPcs == {"txn_nav", "txn_account", "txn_select", "txn_symbol",
                 "txn_submit", "txn_failed", "txn_return", "hold_nav",
                 "hold_layout", "hold_account", "hold_rows",
                 "hold_rows_single", "hold_return"}

\* C6: at most one browser session is open at any time: the session of a
\* credential set is acquired only after the one before it has been closed,
\* and an operation uses the open session of the credential set in process
C6_AtMostOneSessionOpen ==
    /\ Cardinality({k \in 1..MaxCreds : Leaked(k)}) <= 1
    /\ pc \in OperationPcs => session[pos] = "open"

\* wellsfargo_init_single is over for the credential set in process
AfterInit == pc \in {"run_after_init", "run_except", "run_finally",
                     "run_quit", "run_next"}

\* C7: no exception leaves wellsfargo_init_single; when a call of login
\* steps 2-5 raised, the function has taken a screenshot and closed the
\* session when it returns None
C7_InitNeverPropagates ==
    /\ ~initRaised
    /\ (pc = "run_after_init" /\ wfObj = "None" /\ initDriver) =>
            (shot /\ session[pos] = "quit")

\* C8: after a timeout of the login step the session is closed and failure
\* is returned; no one-time code is requested, no account is discovered, no
\* holdings are collected, no order is executed, and the credential set is
\* attempted once
C8_LoginTimeoutSkipsCredential ==
    loginTimedOut =>
        /\ ~initRaised
        /\ AfterInit => session[pos] = "quit"
        /\ pc = "run_after_init" => wfObj = "None"
        /\ otpRequests = 0
        /\ registry = <<>>
        /\ pc \notin OperationPcs
        /\ Cardinality({i \in 1..Len(loginAttempts) : loginAttempts[i] = pos}) = 1

(***************************************************************************)
(* The order execution.                                                    *)
(***************************************************************************)
\* C3: after the submission of a symbol failed, the loop goes on with the
\* next symbol of the account or with the next account
C3_FailureDoesNotStopLoop ==
    [][pc = "txn_failed" => pc' \in {"txn_symbol", "txn_account"}]_vars

\* C4: with the dry-run flag set the submit control is never invoked, and an
\* attempt that reaches the submission branch reports DRY and leaves
\* order_failed true for the next iteration
C4_DryRunNeverSubmits ==
    /\ [](order.dry => /\ submits = 0
                       /\ outcome \in {"none", "DRY"}
                       /\ outcome = "DRY" => orderFailed)
    /\ [][(order.dry /\ pc = "txn_submit") =>
            (outcome' = "DRY" /\ orderFailed' /\ submits' = 0)]_vars

\* C4 witness: a dry attempt of the first symbol reported DRY and the
\* attempt of the second symbol begins with order_failed set
C4_Witness ==
    /\ order.dry
    /\ pc = "txn_symbol"
    /\ sidx = 2
    /\ outcome = "DRY"
    /\ orderFailed
    /\ submits = 0

\* C9: the registry lists the identifiers in the order of the account
\* blocks, and loop index i selects the account whose identifier is
\* registry[i], whatever the order of the entries of the dropdown
C9_IndexSelectsRegistryEntry ==
    /\ registry = [i \in 1..Len(registry) |-> MaskOf(blocks[i])]
    /\ (pc \in OperationPcs /\ selected # "none") =>
            MaskOf(selected) = registry[acct + 1]

(***************************************************************************)
(* The pricing and the numeric extraction.                                 *)
(***************************************************************************)
\* C5: the order type is Limit exactly when the action is buy or sell in any
\* letter case and the quote is below 2.00, with the limit price one cent
\* above the quote for buy and one cent below it for sell; otherwise Market
C5_PricingDecision ==
    fnRes.fn = "price" =>
        LET a == Lower(fnArg.action)
            q == fnArg.quote
        IN /\ fnRes.type = "Limit" <=> (a \in {"buy", "sell"} /\ q < 200)
           /\ fnRes.type # "Limit" => fnRes.type = "Market"
           /\ (a = "buy" /\ q < 200) => fnRes.price = D(q + 1)
           /\ (a = "sell" /\ q < 200) => fnRes.price = D(q - 1)

\* the integer part of an amount: digits, with separators only between
\* groups of three digits
IsGrouped(ip) ==
    /\ ip # <<>>
    /\ IsDigit(ip[1])
    /\ \A i \in 1..Len(ip) : IsDigit(ip[i]) \/ ip[i] = ","
    /\ \A c \in 1..Len(ip) : ip[c] = "," =>
        /\ c + 3 <= Len(ip)
        /\ \A j \in (c + 1)..(c + 3) : IsDigit(ip[j])
        /\ c + 3 = Len(ip) \/ ip[c + 4] = ","
    /\ (\E c \in 1..Len(ip) : ip[c] = ",") => \E c \in 2..4 : ip[c] = ","

\* the text of an amount without its newlines and its "$"
AmountBody(t) ==
    LET u == Remove(t, "\n") IN
    IF u # <<>> /\ u[1] = "$" THEN Tail(u) ELSE u

\* the position of the decimal point of v, or one past its end
PointOf(v) ==
    IF \E i \in 1..Len(v) : v[i] = "."
    THEN CHOOSE i \in 1..Len(v) : v[i] = "." /\ \A j \in 1..(i - 1) : v[j] # "."
    ELSE Len(v) + 1

\* t is a decimal amount, possibly with "$", separators and newlines
IsAmountText(t) ==
    LET v == AmountBody(t)
        d == PointOf(v)
    IN /\ IsGrouped(SubSeq(v, 1, d - 1))
       /\ d <= Len(v) => /\ d < Len(v)
                         /\ \A j \in (d + 1)..Len(v) : IsDigit(v[j])

\* the value of the amount t
AmountValue(t) == Float(Remove(AmountBody(t), ","))

\* C10: the extraction returns the value of a decimal amount written with
\* "$", thousands separators or newlines, and 0 for a text without digits
C10_ExtractionReturnsAmount ==
    fnRes.fn = "extract" =>
        /\ IsAmountText(fnArg.text) => fnRes.value = AmountValue(fnArg.text)
        /\ (\A i \in 1..Len(fnArg.text) : ~IsDigit(fnArg.text[i])) =>
                fnRes.value = Float(<<"0">>)

(***************************************************************************)
(* The records of the holdings collection.                                 *)
(***************************************************************************)
\* a row of the positions table that counts as a data row
IsDataRow(row) == row.cells >= 9

\* the text before the first line break
LineOf(text) ==
    LET breaks == {i \in 1..Len(text) : text[i] = "\n"} IN
    IF breaks = {} THEN text
    ELSE SubSeq(text, 1, (CHOOSE i \in breaks : \A k \in breaks : i <= k) - 1)

\* s is line without the whitespace around it
IsTrimmed(s, line) ==
    \E i \in 1..(Len(line) + 1), j \in 0..Len(line) :
        /\ s = SubSeq(line, i, j)
        /\ \A k \in 1..Len(line) : (k < i \/ k > j) => line[k] \in {" ", "\t"}
        /\ s # <<>> => s[1] \notin {" ", "\t"} /\ s[Len(s)] \notin {" ", "\t"}

\* recs are the records of the data rows of rows, in their order, under mask
AreRecordsOf(recs, rows, mask) ==
    LET data == SelectSeq(rows, IsDataRow) IN
    /\ Len(recs) = Len(data)
    /\ \A k \in 1..Len(data) :
        /\ recs[k].mask = mask
        /\ IsTrimmed(recs[k].symbol, LineOf(data[k].name))
        /\ recs[k].quantity = ExtractNumber(data[k].qty)
        /\ recs[k].price = ExtractNumber(data[k].price)

\* the records of holdings' that holdings does not have
Emitted ==
    IF Len(holdings') >= Len(holdings)
       /\ SubSeq(holdings', 1, Len(holdings)) = holdings
    THEN SubSeq(holdings', Len(holdings) + 1, Len(holdings'))
    ELSE <<[mask |-> "none"]>>

\* C11: scraping the rows of a positions page, in the multi-account path
\* (lines 309-334) as in the single-account path (lines 336-362), appends
\* one record for each row of 9 cells or more and none for a shorter row;
\* the symbol of the record is the trimmed first line of cell 1, its
\* quantity and its price are the numbers extracted from cells 3 and 4
C11_OneRecordPerDataRow ==
    [][/\ (pc = "hold_rows" /\ pc' = "hold_account")
            => AreRecordsOf(Emitted, PageOf(selected), registry[acct + 1])
       /\ (pc = "hold_rows_single" /\ pc' = "hold_return")
            => AreRecordsOf(Emitted, PageOf(blocks[1]), registry[1])]_vars

\* both accounts were scraped in the multi-account path: the 8-cell row of
\* the second page left no record
C11_Witness ==
    /\ pc = "hold_account"
    /\ Len(holdings) = 2
    /\ holdings[1].symbol = <<"A", "B">>
    /\ holdings[2].symbol = <<"T", "S">>

(***************************************************************************)
(* The account loops and the registry.                                     *)
(***************************************************************************)
Min(a, b) == IF a <= b THEN a ELSE b

\* the places where the account of index acct is being processed
ProcessingPcs ==
    {"txn_select", "txn_symbol", "txn_submit", "txn_failed", "hold_rows"}

\* C12: in the account loop of the holdings and in the one of the order
\* execution, an index is processed only below the number of selectable
\* entries and below the length of the registry; an index at or beyond the
\* length of the registry is skipped without an error and without a record
\* or an attempt, and the order execution selects every index below both
C12_RegistryIndexedInRange ==
    [][/\ pc' \in ProcessingPcs => acct' < Min(nAccounts', Len(registry'))
       /\ (pc = "txn_account" /\ acct < nAccounts /\ pc' # "run_except")
            => IF acct >= Len(registry)
               THEN pc' = "txn_account" /\ acct' = acct + 1
                    /\ attempts' = attempts
               ELSE pc' = "txn_select" /\ acct' = acct
       /\ (pc = "hold_account" /\ acct < nAccounts /\ acct >= Len(registry))
            => pc' = "hold_account" /\ acct' = acct + 1
               /\ holdings' = holdings]_vars

\* the dropdown has two entries and the registry one: index 0 was attempted
\* and index 1 was skipped
C12_Witness ==
    /\ pc = "txn_account"
    /\ Len(registry) = 1
    /\ nAccounts = 2
    /\ acct = 2
    /\ attempts[<<0, 1>>] = 1

(***************************************************************************)
(* The symbol attempts of the order execution.                             *)
(***************************************************************************)
\* C13: when the order execution of a session is over, every requested
\* symbol was attempted exactly once for every account a symbol was
\* attempted for
C13_EverySymbolAttemptedOnce ==
    pc \in {"txn_return", "run_except"}
        => \A a \in 0..MaxEntries, s \in 1..Len(order.stocks) :
              attempts[<<a, 1>>] >= 1 => attempts[<<a, s>>] = 1

\* C14: the reset sequence has run before the symbol attempt reaches the
\* buy/sell chooser exactly when order_failed is true at that moment, and
\* before the account selector is reopened exactly when order_failed is true
\* and the order is a dry run
C14_ResetIffOrderFailed ==
    [][/\ (pc = "txn_select" /\ pc' = "txn_symbol")
            => (resetDone' <=> (orderFailed /\ order.dry))
       /\ (pc = "txn_symbol" /\ pc' = "txn_submit")
            => (resetDone' <=> orderFailed)]_vars

\* the second account of a dry run was selected after the reset sequence
C14_Witness ==
    /\ pc = "txn_symbol"
    /\ acct = 1
    /\ order.dry
    /\ orderFailed
    /\ resetDone

\* the places inside wellsfargo_transaction_single
TxnPcs ==
    {"txn_nav", "txn_account", "txn_select", "txn_symbol", "txn_submit",
     "txn_failed", "txn_return"}

\* C15: order_failed is false when the order execution starts; after an
\* attempt that reached the submission branch and reported an outcome it is
\* false exactly when the order was really submitted and true exactly when
\* the attempt was recorded as a dry run or failed; no step of the function
\* outside the submission branch and its failure handler changes it
C15_OrderFailedFollowsOutcome ==
    [][/\ pc' = "txn_nav" => ~orderFailed'
       /\ (pc \in {"txn_submit", "txn_failed"} /\ pc' \in TxnPcs
            /\ outcome' # "none")
            => /\ outcome' = "SUBMITTED" => (~orderFailed' /\ ~order.dry)
               /\ outcome' = "DRY" => (orderFailed' /\ order.dry)
               /\ outcome' = "FAILED" => (orderFailed' /\ ~order.dry)
       /\ (pc \in TxnPcs \ {"txn_submit", "txn_failed"} /\ pc' \in TxnPcs)
            => orderFailed' = orderFailed]_vars

\* a real order failed for the first symbol and the loop is at the second
C15_Witness ==
    /\ pc = "txn_symbol"
    /\ sidx = 2
    /\ outcome = "FAILED"
    /\ orderFailed
    /\ ~order.dry

(***************************************************************************)
(* The one-time code of the login.                                         *)
(***************************************************************************)
\* C16: when the wait for the authentication popup times out, no one-time
\* code was requested; that timeout, and a timeout of the waits that follow
\* the request of the code (lines 177-184), is swallowed: the next step of
\* the login is the wait for the post-login landmark, with the session and
\* the count of requested codes as they were
C16_HandshakeTimeoutSwallowed ==
    [][/\ (pc = "init_popup" /\ pc' = "init_handshake_timeout")
            => otpRequests' = 0
       /\ (pc = "init_code" /\ pc' = "init_handshake_timeout")
            => otpRequests' = 1
       /\ pc = "init_handshake_timeout"
            => /\ pc' = "init_landmark"
               /\ otpRequests' = otpRequests
               /\ session' = session
               /\ initRaised' = initRaised]_vars

\* the popup never appeared: the login waits for the landmark and no code
\* was requested
C16_Witness ==
    /\ pc = "init_landmark"
    /\ otpRequests = 0

\* the places where the login waits for the one-time code
OtpWaits == {"init_otp_notifier", "init_otp_prompt"}

\* C17: once the phone number is picked, the code is requested from the
\* notifier exactly when bot_obj and loop were both supplied and from the
\* prompt otherwise; while the request is pending the only step of the login
\* is its resolution, after which the code entry (or the failure of the
\* login, when the request raised) follows
C17_CodeSourceAndBlocking ==
    [][/\ pc' = "init_otp_notifier"
            => (botLoop'.bot /\ botLoop'.loop /\ otpRequests' = 1)
       /\ pc' = "init_otp_prompt"
            => (~(botLoop'.bot /\ botLoop'.loop) /\ otpRequests' = 1)
       /\ pc' \in OtpWaits => pc = "init_otp"
       /\ (pc = "init_otp" /\ pc' # "init_except") => pc' \in OtpWaits
       /\ pc \in OtpWaits
            => /\ pc' \in {"init_code", "init_except"}
               /\ UNCHANGED <<otpRequests, registry, blocks, session>>]_vars

\* the notifier resolved the request and the login is at the code entry
C17_Witness ==
    /\ pc = "init_code"
    /\ botLoop.bot
    /\ botLoop.loop
    /\ otpRequests = 1

(***************************************************************************)
(* An account the live selector does not show.                             *)
(***************************************************************************)
\* the entry of the selected account contains the unmasked digits of the
\* identifier at the index of the loop
SelectedMatches ==
    /\ selected # "none"
    /\ Includes(EntryText(selected), Unmasked(registry[acct + 1]))

\* C18: a page is scraped and a symbol is attempted for an index only after
\* an entry that contains the unmasked digits of its identifier was
\* selected; when no entry was selected for the index, the holdings are as
\* they were, no symbol is attempted for it and the loop is at the next
\* index
C18_NotFoundSkipsIndex ==
    [][/\ pc' \in {"txn_symbol", "txn_submit", "txn_failed", "hold_rows"}
            => SelectedMatches'
       /\ (pc = "txn_select" /\ selected' = "none")
            => /\ pc' = "txn_account"
               /\ acct' = acct + 1
               /\ attempts' = attempts
       /\ (pc = "hold_account" /\ acct < nAccounts /\ selected' = "none")
            => /\ pc' = "hold_account"
               /\ acct' = acct + 1
               /\ holdings' = holdings]_vars

\* no symbol was attempted for index 0 and the account of index 1 is selected
C18_Witness ==
    /\ pc = "txn_symbol"
    /\ acct = 1
    /\ Len(registry) = 2
    /\ attempts[<<0, 1>>] = 0

(***************************************************************************)
(* The navigation of the holdings collection.                              *)
(***************************************************************************)
\* C19: the navigation to the brokerage section, the holdings view and the
\* positions view either succeeds or makes wellsfargo_holdings_single
\* return with no holdings recorded; it never raises
C19_NavigationFailureReturns ==
    [][pc = "hold_nav"
        => \/ pc' = "hold_layout"
           \/ pc' = "hold_return" /\ holdings' = <<>>]_vars

(***************************************************************************)
(* The end of the run.                                                     *)
(***************************************************************************)
\* C20: every wait of the run is bounded, so the run reaches its end
\* whatever the operator does
C20_RunFinishes == <>(pc = "done")

(***************************************************************************)
(* The label of a session.                                                 *)
(***************************************************************************)
\* C21: while the credential set at position pos of the list is logged in,
\* processed and torn down, the number in its label "WELLSFARGO index" is
\* pos
C21_LabelIsPosition ==
    pc \notin {"run_for", "done"} => index = pos

(***************************************************************************)
(* An order whose action is neither buy nor sell.                          *)
(***************************************************************************)
UnknownAction == Lower(order.action) \notin {"buy", "sell"}

\* C22: with an action that is neither buy nor sell nothing is submitted, no
\* outcome is reported and at most one symbol attempt is started in the
\* session; once that attempt has started, the run comes to its end with
\* the session closed
C22_UnknownActionEndsSession ==
    /\ [](UnknownAction
            => /\ submits = 0
               /\ outcome = "none"
               /\ \A p \in DOMAIN attempts : attempts[p] <= 1
               /\ Cardinality({p \in DOMAIN attempts : attempts[p] > 0}) <= 1)
    /\ (UnknownAction /\ pc = "txn_symbol") ~> (pc = "done" /\ ~Leaked(1))

(***************************************************************************)
(* The limit price.                                                        *)
(***************************************************************************)
\* C23: for every quote of one cent or more, for buy and for sell, a price
\* entered with order type Limit is greater than zero
C23_LimitPricePositive ==
    (fnRes.fn = "price" /\ fnRes.type = "Limit")
        => /\ \A i \in 1..3 : fnRes.price[i] >= 0
           /\ \E i \in 1..3 : fnRes.price[i] > 0

====
